---- MODULE Spec2Model ----
(***************************************************************************)
(* A model of webrtc-sctp's TLV parsing macro (src/packet/parse_utils.rs)  *)
(* and of its UDP lower-layer adapter (src/stack/lowerlayer.rs).           *)
(*                                                                         *)
(* Byte slices are sequences of integers 0..255.  The dispatch function    *)
(* handed to parse_tlv and the UDP socket under UdpLowerLayer are the      *)
(* environment: each of their possible answers is a nondeterministic       *)
(* choice of the action that calls them.                                   *)
(***************************************************************************)
EXTENDS Integers, Sequences, FiniteSets, TLC

VARIABLES
    buffer,         \* the byte buffer handed to the first parse_tlv call
    input,          \* the input of the next parse_tlv call
    prev,           \* the input of the last parse_tlv call
    result,         \* what the last parse_tlv call returned
    calls,          \* the dispatch calls the last parse_tlv call made
    behaviour,      \* how the dispatch function answered in the last call
    steps           \* the number of parse_tlv calls that returned Ok

tlvVars == <<buffer, input, prev, result, calls, behaviour, steps>>

VARIABLES
    rxQueue,        \* the datagrams waiting in the UDP socket's receive queue
    rxAnswer,       \* what the socket answered to the last poll_recv_from
    pollResult      \* what the last UdpLowerLayer::poll returned

recvVars == <<rxQueue, rxAnswer, pollResult>>

VARIABLES
    offered,        \* the packet passed to the last start_send
    txAnswer,       \* what the socket answered to the last poll_send_to
    sendResult,     \* what the last start_send returned
    wire,           \* the datagrams the socket has accepted for sending
    wireBefore,     \* how many it had accepted when the last start_send began
    flushResult     \* what the last poll_complete returned

sendVars == <<offered, txAnswer, sendResult, wire, wireBefore, flushResult>>

VARIABLES
    padLength,      \* padding's argument, length
    position,       \* padding's local, position
    vec,            \* padding's local, vec
    padPc           \* where padding is: in its loop, or returned

padVars == <<padLength, position, vec, padPc>>

VARIABLES
    stackPc,        \* where the spawned thread of main is
    polled,         \* whether the runtime has polled the stack future
    chan,           \* the handles in the channel (tx, rx)
    mainPc,         \* where the main thread is, in main and in echo_server
    handle,         \* the handle the main thread holds
    log             \* the operations echo_server has called, with their results

echoVars == <<stackPc, polled, chan, mainPc, handle, log>>

vars == <<tlvVars, recvVars, sendVars, padVars, echoVars>>

----------------------------------------------------------------------------
(* Bounds of the model *)

\* The longest byte buffer handed to parse_tlv.
MaxLen == 12

\* The most bytes a dispatch function may leave unconsumed.
MaxLeft == 2

\* The most datagrams waiting in the socket's receive queue.
MaxQueue == 1

\* Datagrams of 0..MaxSmall bytes arrive, and datagrams around the size of
\* the receive buffer, up to MaxOver bytes more than it.
MaxSmall == 1
MaxOver == 1

\* The most datagrams the socket accepts for sending in one run.
MaxWire == 3

\* padding is called with every length up to MaxPadding, and with the length
\* the echo server uses.
MaxPadding == 120

\* The most messages the peer sends to the echo server in one session.
MaxMsgs == 2

----------------------------------------------------------------------------
(* Results: nom's IResult<&[u8], O, (&[u8], ErrorKind)> *)

\* Ok((rest, value))
OkR(rest, value) ==
    [ok |-> TRUE, variant |-> "Ok", rest |-> rest, value |-> value, kind |-> "None"]

\* Err(Err::Error((slice, kind))) and Err(Err::Failure((slice, kind)))
ErrR(variant, slice, kind) ==
    [ok |-> FALSE, variant |-> variant, rest |-> slice, value |-> <<>>, kind |-> kind]

\* Err(Err::Incomplete(_))
IncompleteR ==
    [ok |-> FALSE, variant |-> "Incomplete", rest |-> <<>>, value |-> <<>>, kind |-> "None"]

\* The call did not return: a panic.
PanicR ==
    [ok |-> FALSE, variant |-> "Panic", rest |-> <<>>, value |-> <<>>, kind |-> "None"]

\* No call has returned yet.
NoResult ==
    [ok |-> FALSE, variant |-> "None", rest |-> <<>>, value |-> <<>>, kind |-> "None"]

\* &s[from..] with a 0-based offset
SliceFrom(s, from) == SubSeq(s, from + 1, Len(s))

\* &s[..to] with a 0-based end
SliceTo(s, to) == SubSeq(s, 1, to)

----------------------------------------------------------------------------
(* error.rs *)

\* enum SctpError
SctpError ==
    {"Io", "ReadUnderrun", "InvalidPacket", "BadChecksum", "BadState",
     "ExpectedBeginningFragment", "UnexpectedBeginningFragment", "UnexpectedSSN",
     "SendQueueFull", "CommandQueueFull", "Closed", "Timeout"}

----------------------------------------------------------------------------
(* parse_tlv *)

TAG_LENGTH_HEADER_SIZE == 4

\* A be_u16 that reads the two bytes in little-endian order.
BeU16LittleEndian(i) ==
    IF Len(i) < 2
    THEN ErrR("Error", i, "Eof")
    ELSE OkR(SliceFrom(i, 2), i[2] * 256 + i[1])

\* A be_u16 that reads without consuming.
BeU16Peek(i) ==
    IF Len(i) < 2
    THEN ErrR("Error", i, "Eof")
    ELSE OkR(i, i[1] * 256 + i[2])

\* nom::number::complete::be_u16
BeU16(i) ==
    IF Len(i) < 2
    THEN ErrR("Error", i, "Eof")
    ELSE OkR(SliceFrom(i, 2), i[1] * 256 + i[2])

\* No underrun check: the header parsers meet the short input.
HeaderTooShortUnchecked(i) == FALSE

\* input.len() < TAG_LENGTH_HEADER_SIZE
HeaderTooShort(i) == Len(i) < TAG_LENGTH_HEADER_SIZE

\* A length check that lets the lengths 1..3 through.
LengthInvalidZeroOnly(length) == length = 0

\* (length as usize) < TAG_LENGTH_HEADER_SIZE
LengthInvalid(length) == length < TAG_LENGTH_HEADER_SIZE

\* let length = length as usize - TAG_LENGTH_HEADER_SIZE
ValueLength(length) == length - TAG_LENGTH_HEADER_SIZE

\* Padding that counts a full word for an aligned value.
PaddingNoOuterMod(length) == 4 - (length % 4)

\* let padding = (4 - length % 4) % 4
Padding(length) == (4 - (length % 4)) % 4

\* An overrun check that forgets the header was consumed.
OverrunsWithHeader(length, i) == length > Len(i) + TAG_LENGTH_HEADER_SIZE

\* length > i.len()
Overruns(length, i) == length > Len(i)

\* Whether &i[..length] is in bounds; Rust panics on a slice out of bounds
\* (and, in a debug build, on the usize subtraction that would make length
\* negative here).
SliceInBounds(i, length) == 0 <= length /\ length <= Len(i)

\* let value_data = &i[..length]
ValueData(i, length) == SliceTo(i, length)

\* let remaining_input = if padded_length <= total_length { .. } else { .. }
RemainingInput(i, padded_length) ==
    LET total_length == Len(i)
    IN  IF padded_length <= total_length
        THEN SliceFrom(i, padded_length)
        ELSE SliceFrom(i, Len(i))

\* The dispatch function: how it may answer a call with (tag, value_data).
DispatchBehaviours ==
    [type : {"Ok"}, left : 0..MaxLeft]
        \cup [type : {"Incomplete", "Error", "Failure"}, left : {0}]

\* $dispatch_function(tag, value_data)
Dispatch(d, tag, value_data) ==
    CASE d.type = "Ok" ->
           LET left == IF d.left <= Len(value_data) THEN d.left ELSE Len(value_data)
           IN  OkR(SliceFrom(value_data, Len(value_data) - left), <<tag, value_data>>)
      [] d.type = "Incomplete" -> IncompleteR
      [] d.type = "Error" -> ErrR("Error", value_data, "Eof")
      [] d.type = "Failure" -> ErrR("Failure", value_data, "Verify")

\* A completion that returns the value whatever the dispatch function left.
CompletionUnchecked(dr, i, remaining_input) ==
    IF dr.ok
    THEN OkR(remaining_input, dr.value)
    ELSE IF dr.variant = "Incomplete"
         THEN ErrR("Error", i, "Count")
         ELSE dr

\* match $dispatch_function(tag, value_data) { .. }
Completion(dr, i, remaining_input) ==
    IF dr.ok
    THEN IF Len(dr.rest) # 0
         THEN ErrR("Error", dr.rest, "Count")
         ELSE OkR(remaining_input, dr.value)
    ELSE IF dr.variant = "Incomplete"
         THEN ErrR("Error", i, "Count")
         ELSE dr

\* What one expansion of parse_tlv does: its result and its dispatch calls.
Outcome(res, dispatched) == [res |-> res, calls |-> dispatched]

\* parse_tlv!(input, dispatch), the dispatch function answering as d
ParseTlv(in, d) ==
    IF HeaderTooShort(in)
    THEN Outcome(ErrR("Error", in, "Count"), <<>>)
    ELSE
      LET r1 == BeU16(in)
      IN  IF ~r1.ok THEN Outcome(r1, <<>>)
          ELSE
            LET tag == r1.value
                r2  == BeU16(r1.rest)
            IN  IF ~r2.ok THEN Outcome(r2, <<>>)
                ELSE
                  LET i == r2.rest
                  IN  IF LengthInvalid(r2.value)
                      THEN Outcome(ErrR("Error", i, "Count"), <<>>)
                      ELSE
                        LET length        == ValueLength(r2.value)
                            padding       == Padding(length)
                            padded_length == length + padding
                        IN  IF Overruns(length, i)
                            THEN Outcome(ErrR("Error", i, "Count"), <<>>)
                            ELSE IF ~SliceInBounds(i, length)
                            THEN Outcome(PanicR, <<>>)
                            ELSE
                              LET value_data      == ValueData(i, length)
                                  remaining_input == RemainingInput(i, padded_length)
                                  dr              == Dispatch(d, tag, value_data)
                              IN  Outcome(Completion(dr, i, remaining_input),
                                          <<[tag |-> tag, value |-> value_data, ret |-> dr]>>)

----------------------------------------------------------------------------
(* The UDP socket under UdpLowerLayer *)

\* The peers datagrams come from and go to (SocketAddr).
Peers == {"peerA", "peerB"}

\* A datagram of n bytes: 1, 2, 3, ... modulo 256.
Payload(n) == [j \in 1..n |-> j % 256]

\* let mut buffer: [u8; 1500] = [0; 1500]
RECV_BUFFER_SIZE == 1500

ZeroBuffer == [j \in 1..RECV_BUFFER_SIZE |-> 0]

\* The sizes of the datagrams that arrive.
DatagramSizes ==
    (0..MaxSmall) \cup ((RECV_BUFFER_SIZE - 1)..(RECV_BUFFER_SIZE + MaxOver))

Datagrams == {[payload |-> Payload(n), from |-> a] : n \in DatagramSizes, a \in Peers}

NoDatagram == [payload |-> <<>>, from |-> "none"]

\* An answer of the socket to poll_recv_from(&mut buffer): Ok(Async::Ready((nbytes,
\* address))) with the buffer it filled and the datagram it took off its queue,
\* Ok(Async::NotReady), or Err(e) with e.kind().
RecvReady(buf, nbytes, address, datagram) ==
    [is |-> "Ready", buffer |-> buf, nbytes |-> nbytes, address |-> address,
     kind |-> "None", datagram |-> datagram]

RecvNotReady ==
    [is |-> "NotReady", buffer |-> <<>>, nbytes |-> 0, address |-> "none",
     kind |-> "None", datagram |-> NoDatagram]

RecvErr(kind, datagram) ==
    [is |-> "Err", buffer |-> <<>>, nbytes |-> 0, address |-> "none",
     kind |-> kind, datagram |-> datagram]

NoAnswer ==
    [is |-> "None", buffer |-> <<>>, nbytes |-> 0, address |-> "none",
     kind |-> "None", datagram |-> NoDatagram]

\* recvfrom into a buffer: the first bytes of the datagram, as many as fit; the
\* bytes of the datagram that do not fit are discarded.
Filled(buf, payload) ==
    [j \in 1..Len(buf) |-> IF j <= Len(payload) THEN payload[j] ELSE buf[j]]

Min(a, b) == IF a <= b THEN a ELSE b

\* The I/O errors of a UDP socket other than WouldBlock.
OtherIoErrors == {"ConnectionRefused", "Other"}

\* self.socket.poll_recv_from(&mut buffer): the answers the socket can give with
\* queue q.  It takes the datagram at the head, if any: a datagram longer than
\* the buffer is truncated to it or, where the platform reports that instead,
\* fails the call.  With nothing to take it is not ready, or would block.  A
\* pending socket error fails the call and leaves the queue.
PollRecvFrom(buf, q) ==
    {RecvNotReady}
      \cup {RecvErr(k, NoDatagram) : k \in OtherIoErrors}
      \cup (IF q = <<>>
            THEN {RecvErr("WouldBlock", NoDatagram)}
            ELSE LET d == Head(q)
                 IN  {RecvReady(Filled(buf, d.payload),
                                Min(Len(d.payload), Len(buf)), d.from, d)}
                       \cup (IF Len(d.payload) > Len(buf)
                             THEN {RecvErr("Other", d)}
                             ELSE {}))

\* struct LowerLayerPacket { buffer, address }
LowerLayerPacket(buf, address) == [buffer |-> buf, address |-> address]

NoPacket == LowerLayerPacket(<<>>, "none")

\* Poll<Option<LowerLayerPacket>, io::Error>: Ok(Async::Ready(Some(packet))),
\* Ok(Async::Ready(None)), Ok(Async::NotReady), Err(e)
PollReady(packet) == [is |-> "Ready", some |-> TRUE, packet |-> packet, kind |-> "None"]
PollEnd == [is |-> "Ready", some |-> FALSE, packet |-> NoPacket, kind |-> "None"]
PollNotReady == [is |-> "NotReady", some |-> FALSE, packet |-> NoPacket, kind |-> "None"]
PollErr(kind) == [is |-> "Err", some |-> FALSE, packet |-> NoPacket, kind |-> kind]
NoPoll == [is |-> "None", some |-> FALSE, packet |-> NoPacket, kind |-> "None"]

\* A poll that has no arm for WouldBlock.
PollNoWouldBlockArm(answer) ==
    CASE answer.is = "Ready" ->
           PollReady(LowerLayerPacket(SliceTo(answer.buffer, answer.nbytes), answer.address))
      [] answer.is = "NotReady" -> PollNotReady
      [] OTHER -> PollErr(answer.kind)

\* A poll that takes an empty read for the end of the stream.
PollEndsOnEmptyDatagram(answer) ==
    CASE answer.is = "Ready" /\ answer.nbytes = 0 -> PollEnd
      [] answer.is = "Ready" ->
           PollReady(LowerLayerPacket(SliceTo(answer.buffer, answer.nbytes), answer.address))
      [] answer.is = "NotReady" -> PollNotReady
      [] answer.is = "Err" /\ answer.kind = "WouldBlock" -> PollNotReady
      [] OTHER -> PollErr(answer.kind)

\* impl Stream for UdpLowerLayer: the match on the socket's answer in poll
Poll(answer) ==
    CASE answer.is = "Ready" ->
           PollReady(LowerLayerPacket(SliceTo(answer.buffer, answer.nbytes), answer.address))
      [] answer.is = "NotReady" -> PollNotReady
      [] answer.is = "Err" /\ answer.kind = "WouldBlock" -> PollNotReady
      [] OTHER -> PollErr(answer.kind)

\* The packets the engine hands to start_send.
SendPackets ==
    {LowerLayerPacket(Payload(n), a) : n \in {0, 3}, a \in Peers}

\* An answer of the socket to poll_send_to(buf, target).
SendAnswers ==
    [is : {"Ready", "NotReady"}, kind : {"None"}]
      \cup [is : {"Err"}, kind : {"WouldBlock"} \cup OtherIoErrors]

NoSendAnswer == [is |-> "None", kind |-> "None"]

\* StartSend<LowerLayerPacket, io::Error>
SinkReady == [is |-> "Ready", packet |-> NoPacket, kind |-> "None"]
SinkNotReady(packet) == [is |-> "NotReady", packet |-> packet, kind |-> "None"]
SinkErr(kind) == [is |-> "Err", packet |-> NoPacket, kind |-> kind]
NoSink == [is |-> "None", packet |-> NoPacket, kind |-> "None"]

\* A start_send that reports a packet the socket did not take as sent.
StartSendSwallowsNotReady(packet, answer) ==
    CASE answer.is = "Ready" -> SinkReady
      [] answer.is = "NotReady" -> SinkReady
      [] answer.is = "Err" /\ answer.kind = "WouldBlock" -> SinkNotReady(packet)
      [] OTHER -> SinkErr(answer.kind)

\* impl Sink for UdpLowerLayer: the match on the socket's answer in start_send
StartSend(packet, answer) ==
    CASE answer.is = "Ready" -> SinkReady
      [] answer.is = "NotReady" -> SinkNotReady(packet)
      [] answer.is = "Err" /\ answer.kind = "WouldBlock" -> SinkNotReady(packet)
      [] OTHER -> SinkErr(answer.kind)

\* What start_send hands to the socket: poll_send_to(&packet.buffer, &packet.address)
SentDatagram(packet) == [payload |-> packet.buffer, to |-> packet.address]

\* fn poll_complete(&mut self)
PollComplete == "Ready"

----------------------------------------------------------------------------
(* The buffers parse_tlv is applied to *)

\* The bytes that follow a header up to the next one: 17, 18, 19, ...
Fill(k) == [j \in 1..k |-> 16 + j]

\* The tag bytes of a generated header: tag 4 before an even length field
\* and tag 258 before an odd one, so that both tags and every length occur.
TagField(lf) == IF lf[2] % 2 = 0 THEN <<0, 4>> ELSE <<1, 2>>

\* The length fields of the generated headers: every length up to one more
\* than the longest buffer, and 1024, whose high byte is not zero.
LengthFields == {<<0, l>> : l \in 0..(MaxLen + 1)} \cup {<<4, 0>>}

\* Every generated buffer of at most n bytes: fewer than four bytes, or a
\* header followed by some bytes and then by another generated buffer.  The
\* length a header declares is independent of the bytes that follow it.
RECURSIVE Buffers(_)
Buffers(n) ==
    {Fill(k) : k \in 0..(IF n < 3 THEN n ELSE 3)}
        \cup IF n < TAG_LENGTH_HEADER_SIZE THEN {}
             ELSE UNION { UNION { { TagField(lf) \o lf \o Fill(k) \o rest :
                                      rest \in Buffers(n - TAG_LENGTH_HEADER_SIZE - k) } :
                                  k \in 0..(n - TAG_LENGTH_HEADER_SIZE) } :
                          lf \in LengthFields }

----------------------------------------------------------------------------
(* Parsing a buffer TLV by TLV *)

\* No buffer to parse: the parser is not running.
TlvIdle ==
    /\ buffer = <<>>
    /\ input = <<>>
    /\ prev = <<>>
    /\ result = NoResult
    /\ calls = <<>>
    /\ behaviour = [type |-> "Ok", left |-> 0]
    /\ steps = 0

TlvInit ==
    /\ buffer \in Buffers(MaxLen)
    /\ input = buffer
    /\ prev = <<>>
    /\ result = NoResult
    /\ calls = <<>>
    /\ behaviour = [type |-> "Ok", left |-> 0]
    /\ steps = 0

\* One parse_tlv call on the remaining input; the caller goes on while the
\* calls succeed and input remains.
ParseNext ==
    /\ \/ result = NoResult
       \/ result.ok /\ input # <<>>
    /\ \E d \in DispatchBehaviours :
         LET out == ParseTlv(input, d)
         IN  /\ prev' = input
             /\ result' = out.res
             /\ calls' = out.calls
             /\ behaviour' = d
             /\ input' = IF out.res.ok THEN out.res.rest ELSE input
             /\ steps' = IF out.res.ok THEN steps + 1 ELSE steps
    /\ UNCHANGED <<buffer, recvVars, sendVars, padVars, echoVars>>

----------------------------------------------------------------------------
(* The lower layer's receive side *)

\* UdpLowerLayer::new(): a bound socket, nothing received.
RecvInit ==
    /\ rxQueue = <<>>
    /\ rxAnswer = NoAnswer
    /\ pollResult = NoPoll

\* The network delivers a datagram to the socket.
Arrive ==
    /\ Len(rxQueue) < MaxQueue
    /\ \E d \in Datagrams : rxQueue' = Append(rxQueue, d)
    /\ UNCHANGED <<rxAnswer, pollResult, tlvVars, sendVars, padVars, echoVars>>

\* UdpLowerLayer::poll
PollCall ==
    /\ \E answer \in PollRecvFrom(ZeroBuffer, rxQueue) :
         /\ rxAnswer' = answer
         /\ rxQueue' = IF answer.datagram = NoDatagram THEN rxQueue ELSE Tail(rxQueue)
         /\ pollResult' = Poll(answer)
    /\ UNCHANGED <<tlvVars, sendVars, padVars, echoVars>>

----------------------------------------------------------------------------
(* The lower layer's send side *)

SendInit ==
    /\ offered = NoPacket
    /\ txAnswer = NoSendAnswer
    /\ sendResult = NoSink
    /\ wire = <<>>
    /\ wireBefore = 0
    /\ flushResult = "None"

\* UdpLowerLayer::start_send(packet)
StartSendCall ==
    /\ Len(wire) < MaxWire
    /\ \E packet \in SendPackets, answer \in SendAnswers :
         /\ offered' = packet
         /\ txAnswer' = answer
         /\ wireBefore' = Len(wire)
         /\ wire' = IF answer.is = "Ready"
                    THEN Append(wire, SentDatagram(packet))
                    ELSE wire
         /\ sendResult' = StartSend(packet, answer)
    /\ UNCHANGED <<flushResult, tlvVars, recvVars, padVars, echoVars>>

\* UdpLowerLayer::poll_complete
PollCompleteCall ==
    /\ flushResult' = PollComplete
    /\ UNCHANGED <<offered, txAnswer, sendResult, wire, wireBefore, tlvVars, recvVars, padVars, echoVars>>

----------------------------------------------------------------------------
(* examples/echo_server.rs: padding *)

\* The bytes b',' and b'x'
COMMA == 44
LETTER_X == 120

\* format!("{}", n).into_bytes(): the decimal digits of n, in ASCII
RECURSIVE Decimal(_)
Decimal(n) ==
    IF n < 10 THEN <<48 + n>> ELSE Decimal(n \div 10) \o <<48 + (n % 10)>>

\* A tag that counts offsets from one.
TagOneBased(pos) == Decimal(pos + 1) \o <<COMMA>>

\* let mut tag = format!("{},", position).into_bytes()
Tag(pos) == Decimal(pos) \o <<COMMA>>

\* A fit test that also turns down a tag that fits exactly.
FitTagStrict(tag, bytes_remaining) ==
    IF Len(tag) >= bytes_remaining
    THEN [j \in 1..bytes_remaining |-> LETTER_X]
    ELSE tag

\* if tag.len() > bytes_remaining { tag.clear(); for _ in 0..bytes_remaining { tag.push(b'x') } }
FitTag(tag, bytes_remaining) ==
    IF Len(tag) > bytes_remaining
    THEN [j \in 1..bytes_remaining |-> LETTER_X]
    ELSE tag

\* The body of padding's while loop: the bytes it appends at position.
PaddingTag(pos, length) ==
    LET bytes_remaining == length - pos
    IN  FitTag(Tag(pos), bytes_remaining)

\* echo.extend(padding(1000))
ECHO_PADDING == 1000

\* The lengths padding is called with.
PaddingLengths == (0..MaxPadding) \cup {ECHO_PADDING}

\* padding is not running.
PaddingIdle ==
    /\ padLength = 0
    /\ position = 0
    /\ vec = <<>>
    /\ padPc = "done"

\* let mut position = 0; let mut vec = Vec::with_capacity(length)
PaddingInit ==
    /\ padLength \in PaddingLengths
    /\ position = 0
    /\ vec = <<>>
    /\ padPc = "loop"

\* One pass of the while loop.
PaddingStep ==
    /\ padPc = "loop"
    /\ position < padLength
    /\ LET tag == PaddingTag(position, padLength)
       IN  /\ position' = position + Len(tag)
           /\ vec' = vec \o tag
    /\ UNCHANGED <<padLength, padPc, tlvVars, recvVars, sendVars, echoVars>>

\* The loop ends and padding returns vec.
PaddingReturn ==
    /\ padPc = "loop"
    /\ ~(position < padLength)
    /\ padPc' = "done"
    /\ UNCHANGED <<padLength, position, vec, tlvVars, recvVars, sendVars, echoVars>>

----------------------------------------------------------------------------
(* examples/echo_server.rs: main and echo_server *)

\* b"Hello, SCTP!\n"
HELLO == <<72, 101, 108, 108, 111, 44, 32, 83, 67, 84, 80, 33, 10>>

\* b"abort\n" and b"shutdown\n"
ABORT == <<97, 98, 111, 114, 116, 10>>
SHUTDOWN == <<115, 104, 117, 116, 100, 111, 119, 110, 10>>

\* b"Echo: "
ECHO_PREFIX == <<69, 99, 104, 111, 58, 32>>

\* handle.listen(2000)
LISTEN_PORT == 2000

\* The messages the peer sends: the two control messages, "ping\n", and
\* "abort" without its newline.
Messages == {ABORT, SHUTDOWN, <<112, 105, 110, 103, 10>>, <<97, 98, 111, 114, 116>>}

\* An echo without the padding.
EchoWithoutPadding(pad, buf) == ECHO_PREFIX \o buf

\* let mut echo = vec![]; echo.extend(padding(1000)); echo.extend(b"Echo: ".to_vec());
\* echo.extend(&msg.buffer[..]), where pad is what padding(1000) returned
Echo(pad, buf) == pad \o ECHO_PREFIX \o buf

\* The spawned thread runs the stack before it hands out the handle.
StackAfterRunFirst(pc) ==
    CASE pc = "Runtime::new" -> "SctpStack::new"
      [] pc = "SctpStack::new" -> "handle"
      [] pc = "handle" -> "rt.spawn"
      [] pc = "rt.spawn" -> "rt.run"
      [] pc = "rt.run" -> "rt.run"
      [] OTHER -> pc

\* The statements of the spawned thread, in their order.
StackAfter(pc) ==
    CASE pc = "Runtime::new" -> "SctpStack::new"
      [] pc = "SctpStack::new" -> "handle"
      [] pc = "handle" -> "tx.send"
      [] pc = "tx.send" -> "rt.spawn"
      [] pc = "rt.spawn" -> "rt.run"
      [] OTHER -> pc

\* The places of echo_server that call an operation of the handle, the listener
\* or the association.
CallSites ==
    {"listen", "accept", "greet", "recv", "abort", "shutdown", "recv_wait", "echo"}

\* The operation called at a place, with the bytes (or the port) it is given;
\* msg is the message held and pad what padding returned.
CallAt(pc, msg, pad) ==
    CASE pc = "listen" -> [op |-> "listen", arg |-> <<LISTEN_PORT>>]
      [] pc = "accept" -> [op |-> "accept", arg |-> <<>>]
      [] pc = "greet" -> [op |-> "send_bytes", arg |-> HELLO]
      [] pc = "recv" -> [op |-> "recv", arg |-> <<>>]
      [] pc = "abort" -> [op |-> "abort", arg |-> <<>>]
      [] pc = "shutdown" -> [op |-> "shutdown", arg |-> <<>>]
      [] pc = "recv_wait" -> [op |-> "recv_wait", arg |-> <<>>]
      [] pc = "echo" -> [op |-> "send_bytes", arg |-> Echo(pad, msg)]

\* What an operation may return: Ok(..), Err(e), and for recv Ok(Some(message))
\* or Ok(None).  accept returns the association itself.
Ret(is, msg) == [is |-> is, msg |-> msg]

Pending == Ret("pending", <<>>)

Returns(op) ==
    CASE op = "accept" -> {Ret("Ok", <<>>)}
      [] op = "recv" ->
           {Ret("Some", m) : m \in Messages} \cup {Ret("None", <<>>), Ret("Err", <<>>)}
      [] OTHER -> {Ret("Ok", <<>>), Ret("Err", <<>>)}

\* match &msg.buffer[..] { b"abort\n" => .., b"shutdown\n" => .., _ => {} }
AfterMessage(buf) ==
    CASE buf = ABORT -> "abort"
      [] buf = SHUTDOWN -> "shutdown"
      [] OTHER -> "padding"

\* A result that is dropped instead of tried.
TryIgnored(ret, next) == next

\* The ? operator: go on with Ok, return the error from echo_server.
Try(ret, next) == IF ret.is = "Err" THEN "return Err" ELSE next

\* A loop that goes on after abort.
AfterAbortNoBreak(pc, ret) ==
    CASE pc = "listen" -> IF ret.is = "Err" THEN "panicked" ELSE "accept"
      [] pc = "accept" -> "greet"
      [] pc = "greet" -> Try(ret, "recv")
      [] pc = "recv" -> IF ret.is = "Some" THEN AfterMessage(ret.msg) ELSE "return Ok"
      [] pc = "abort" -> Try(ret, "padding")
      [] pc = "shutdown" -> Try(ret, "recv_wait")
      [] pc = "recv_wait" -> Try(ret, "return Ok")
      [] pc = "echo" -> Try(ret, "recv")

\* Where echo_server goes when the operation called at pc returns ret.
After(pc, ret) ==
    CASE pc = "listen" -> IF ret.is = "Err" THEN "panicked" ELSE "accept"
      [] pc = "accept" -> "greet"
      [] pc = "greet" -> Try(ret, "recv")
      [] pc = "recv" -> IF ret.is = "Some" THEN AfterMessage(ret.msg) ELSE "return Ok"
      [] pc = "abort" -> Try(ret, "return Ok")
      [] pc = "shutdown" -> Try(ret, "recv_wait")
      [] pc = "recv_wait" -> Try(ret, "return Ok")
      [] pc = "echo" -> Try(ret, "recv")

\* The message echo_server holds: the last one recv returned.
RECURSIVE LastMessage(_, _)
LastMessage(l, i) ==
    IF i = 0 THEN <<>>
    ELSE IF l[i].op = "recv" /\ l[i].ret.is = "Some" THEN l[i].ret.msg
    ELSE LastMessage(l, i - 1)

\* The number of messages received so far.
Received(l) == Cardinality({i \in 1..Len(l) : l[i].op = "recv" /\ l[i].ret.is = "Some"})

\* Neither thread has run: main has made the channel and spawned the thread.
EchoInit ==
    /\ stackPc = "Runtime::new"
    /\ polled = FALSE
    /\ chan = <<>>
    /\ mainPc = "rx.recv"
    /\ handle = "none"
    /\ log = <<>>

\* The echo server is not running.
EchoIdle ==
    /\ stackPc = "panicked"
    /\ polled = FALSE
    /\ chan = <<>>
    /\ mainPc = "panicked"
    /\ handle = "none"
    /\ log = <<>>

otherVars == <<tlvVars, recvVars, sendVars, padVars>>

\* Runtime::new().unwrap(), SctpStack::new(), sctp_stack.handle() and
\* rt.spawn(..): the next statement of the spawned thread.
StackStep ==
    /\ stackPc \in {"Runtime::new", "SctpStack::new", "handle", "rt.spawn"}
    /\ stackPc' = StackAfter(stackPc)
    /\ UNCHANGED <<polled, chan, mainPc, handle, log, otherVars>>

\* Runtime::new().unwrap() or SctpStack::new() (which binds the UDP socket and
\* unwraps) panics: the thread ends and tx is dropped.
StackPanic ==
    /\ stackPc \in {"Runtime::new", "SctpStack::new"}
    /\ stackPc' = "panicked"
    /\ UNCHANGED <<polled, chan, mainPc, handle, log, otherVars>>

\* tx.send(handle).unwrap()
TxSend ==
    /\ stackPc = "tx.send"
    /\ chan' = Append(chan, "handle")
    /\ stackPc' = StackAfter(stackPc)
    /\ UNCHANGED <<polled, mainPc, handle, log, otherVars>>

\* rt.run(): the runtime polls the stack future.
StackPoll ==
    /\ stackPc = "rt.run"
    /\ polled' = TRUE
    /\ UNCHANGED <<stackPc, chan, mainPc, handle, log, otherVars>>

\* let handle = rx.recv().unwrap(): blocks until a handle is in the channel.
RxRecv ==
    /\ mainPc = "rx.recv"
    /\ chan # <<>>
    /\ handle' = Head(chan)
    /\ chan' = Tail(chan)
    /\ mainPc' = "listen"
    /\ UNCHANGED <<stackPc, polled, log, otherVars>>

\* rx.recv() fails when the sender is gone with the channel empty; unwrap panics.
RxRecvDisconnected ==
    /\ mainPc = "rx.recv"
    /\ chan = <<>>
    /\ stackPc = "panicked"
    /\ mainPc' = "panicked"
    /\ UNCHANGED <<stackPc, polled, chan, handle, log, otherVars>>

\* Whether the last operation called has not returned yet.
Waiting == log # <<>> /\ log[Len(log)].ret = Pending

\* echo.extend(padding(1000)): echo_server calls padding.
CallPadding ==
    /\ mainPc = "padding"
    /\ padLength' = ECHO_PADDING
    /\ position' = 0
    /\ vec' = <<>>
    /\ padPc' = "loop"
    /\ mainPc' = "echo"
    /\ UNCHANGED <<stackPc, polled, chan, handle, log, tlvVars, recvVars, sendVars>>

\* echo_server calls the operation of the place it is at (the echo is sent
\* once padding has returned).
Call ==
    /\ mainPc \in CallSites
    /\ ~Waiting
    /\ padPc = "done"
    /\ LET c == CallAt(mainPc, LastMessage(log, Len(log)), vec)
       IN  log' = Append(log, [op |-> c.op, arg |-> c.arg, by |-> handle, ret |-> Pending])
    /\ UNCHANGED <<stackPc, polled, chan, mainPc, handle, otherVars>>

\* The operation returns one of its results, whichever the engine and the peer
\* make it, and echo_server goes on from it.
Return ==
    /\ mainPc \in CallSites
    /\ Waiting
    /\ \E ret \in Returns(log[Len(log)].op) :
         /\ ret.is = "Some" => Received(log) < MaxMsgs
         /\ log' = [log EXCEPT ![Len(log)].ret = ret]
         /\ mainPc' = After(mainPc, ret)
    /\ UNCHANGED <<stackPc, polled, chan, handle, otherVars>>

----------------------------------------------------------------------------
(* Specifications *)

TlvNext == ParseNext

\* Parsing a buffer TLV by TLV.
InitTlv == TlvInit /\ RecvInit /\ SendInit /\ PaddingIdle /\ EchoIdle

SpecTlv == InitTlv /\ [][TlvNext]_vars

RecvNext == Arrive \/ PollCall

\* The lower layer receiving.
InitRecv == TlvIdle /\ RecvInit /\ SendInit /\ PaddingIdle /\ EchoIdle

SpecRecv == InitRecv /\ [][RecvNext]_vars

SendNext == StartSendCall \/ PollCompleteCall

\* The lower layer sending.
InitSend == TlvIdle /\ RecvInit /\ SendInit /\ PaddingIdle /\ EchoIdle

SpecSend == InitSend /\ [][SendNext]_vars

PaddingNext == PaddingStep \/ PaddingReturn

\* padding called with one length.
InitPadding == TlvIdle /\ RecvInit /\ SendInit /\ PaddingInit /\ EchoIdle

SpecPadding == InitPadding /\ [][PaddingNext]_vars

EchoNext ==
    \/ StackStep
    \/ StackPanic
    \/ TxSend
    \/ StackPoll
    \/ RxRecv
    \/ RxRecvDisconnected
    \/ CallPadding
    \/ PaddingStep
    \/ PaddingReturn
    \/ Call
    \/ Return

\* The echo server program: the main thread and the thread it spawns.
InitEcho == TlvIdle /\ RecvInit /\ SendInit /\ PaddingIdle /\ EchoInit

SpecEcho == InitEcho /\ [][EchoNext]_vars

\* The parser, the lower layer, padding and the echo server side by side.
Init == TlvInit /\ RecvInit /\ SendInit /\ PaddingInit /\ EchoInit

Next == TlvNext \/ RecvNext \/ SendNext \/ PaddingNext \/ EchoNext

Spec == Init /\ [][Next]_vars

----------------------------------------------------------------------------
(* What the claims speak of, read off the bytes of the last call's input *)

\* parse_tlv has been called.
Called == result.variant # "None"

\* The last call returned Ok.
Accepted == result.ok

\* The last call returned Err(Err::Error(_)) or Err(Err::Failure(_)).
Rejected == ~result.ok /\ result.variant \in {"Error", "Failure"}

\* The last call returned Err(Err::Error((_, ErrorKind::Count))).
RejectedCount == ~result.ok /\ result.variant = "Error" /\ result.kind = "Count"

\* The last input holds a whole tag-length header.
HasHeader == Len(prev) >= 4

\* The tag and the length field of the last input, big-endian.
DeclaredTag == prev[1] * 256 + prev[2]
DeclaredLength == prev[3] * 256 + prev[4]

\* The declared length of the value, and the bytes present after the header.
DeclaredValue == DeclaredLength - 4
BytesAfterHeader == Len(prev) - 4

RoundUp4(n) == ((n + 3) \div 4) * 4

\* The bytes from..to (1-based, inclusive) of s, where s has them.
Bytes(s, from, to) ==
    IF 1 <= from /\ from <= to + 1 /\ to <= Len(s)
    THEN SubSeq(s, from, to)
    ELSE <<"out of range">>

IsSuffix(t, s) ==
    /\ Len(t) <= Len(s)
    /\ t = Bytes(s, Len(s) - Len(t) + 1, Len(s))

\* The last input's length field is below the header size.
LengthBelowHeader == Called /\ HasHeader /\ DeclaredLength < 4

\* The last input's declared value extends past the end of the input.
LengthOverruns ==
    Called /\ HasHeader /\ DeclaredLength >= 4 /\ DeclaredValue > BytesAfterHeader

\* The last input does not hold the whole padding of its value.
PaddingMissing == 4 + RoundUp4(DeclaredValue) > Len(prev)

----------------------------------------------------------------------------
(* What the lower-layer claims speak of *)

\* start_send has been called.
SendCalled == sendResult.is # "None"

\* poll has been called.
PollCalled == pollResult.is # "None"

\* The socket answered Err with kind WouldBlock.
WouldBlock(answer) == answer.is = "Err" /\ answer.kind = "WouldBlock"

(* C1: start_send drops no packet: it returns Ready exactly when the socket
   accepted the packet, NotReady carrying the very packet it was given
   exactly when the socket was not ready or would block, and the error
   otherwise; only an accepted packet reaches the wire, once; poll_complete
   is always Ready. *)
C1_NoDropUnderBackPressure ==
    /\ SendCalled =>
         /\ sendResult.is \in {"Ready", "NotReady", "Err"}
         /\ sendResult.is = "Ready" <=> txAnswer.is = "Ready"
         /\ sendResult.is = "Ready" =>
              /\ Len(wire) = wireBefore + 1
              /\ wire[Len(wire)] = [payload |-> offered.buffer, to |-> offered.address]
         /\ sendResult.is = "NotReady" <=>
              (txAnswer.is = "NotReady" \/ WouldBlock(txAnswer))
         /\ sendResult.is = "NotReady" =>
              /\ sendResult.packet = offered
              /\ Len(wire) = wireBefore
         /\ sendResult.is = "Err" <=> (txAnswer.is = "Err" /\ ~WouldBlock(txAnswer))
         /\ sendResult.is = "Err" =>
              /\ sendResult.kind = txAnswer.kind
              /\ Len(wire) = wireBefore
    /\ flushResult \in {"None", "Ready"}

C1_Witness ==
    /\ sendResult.is = "NotReady"
    /\ WouldBlock(txAnswer)
    /\ sendResult.packet = offered
    /\ Len(offered.buffer) = 3
    /\ Len(wire) = wireBefore
    /\ wire # <<>>
    /\ flushResult = "Ready"

(* C2: every Ready result of poll is one datagram of the socket, whole: the
   buffer has the datagram's length and bytes and the address is its peer,
   whatever the datagram's size. *)
C2_DatagramPreserved ==
    (PollCalled /\ pollResult.is = "Ready") =>
        /\ pollResult.some
        /\ rxAnswer.datagram # NoDatagram
        /\ pollResult.packet.address = rxAnswer.datagram.from
        /\ Len(pollResult.packet.buffer) = Len(rxAnswer.datagram.payload)
        /\ pollResult.packet.buffer = rxAnswer.datagram.payload

(* C3: poll reports absence of data as NotReady, never as an error: it is
   NotReady exactly when the socket was not ready or would block, it is
   Ready(Some(packet)) exactly when the socket delivered a datagram, and it
   is Err exactly for an I/O error other than WouldBlock, with no packet. *)
C3_NotReadyNotError ==
    PollCalled =>
        /\ pollResult.is = "NotReady" <=>
             (rxAnswer.is = "NotReady" \/ WouldBlock(rxAnswer))
        /\ pollResult.is = "Ready" <=> rxAnswer.is = "Ready"
        /\ pollResult.is = "Ready" =>
             /\ pollResult.some
             /\ rxAnswer.datagram # NoDatagram
        /\ pollResult.is = "Err" <=> (rxAnswer.is = "Err" /\ ~WouldBlock(rxAnswer))
        /\ pollResult.is = "Err" =>
             /\ pollResult.kind = rxAnswer.kind
             /\ pollResult.kind # "WouldBlock"
             /\ ~pollResult.some
             /\ pollResult.packet = NoPacket
        /\ pollResult.is # "Ready" => pollResult.packet = NoPacket

C3_Witness ==
    /\ pollResult.is = "NotReady"
    /\ WouldBlock(rxAnswer)
    /\ rxQueue = <<>>

(* C14: the receive stream never ends: whatever the socket answers, in
   every state, poll returns Ready(Some(packet)), NotReady or Err, never
   Ready(None); a datagram of no bytes is a packet with an empty buffer. *)
C14_StreamNeverEnds ==
    /\ pollResult # PollEnd
    /\ \A answer \in PollRecvFrom(ZeroBuffer, rxQueue) :
         /\ Poll(answer) # PollEnd
         /\ Poll(answer).is \in {"Ready", "NotReady", "Err"}
         /\ Poll(answer).is = "Ready" => Poll(answer).some

C14_Witness ==
    /\ pollResult.is = "Ready"
    /\ pollResult.some
    /\ rxAnswer.nbytes = 0
    /\ pollResult.packet.buffer = <<>>
    /\ pollResult.packet.address \in Peers

----------------------------------------------------------------------------
(* What the claim about padding speaks of *)

IsDigit(b) == b \in 48..57

\* The number of decimal digits of an offset below 10000.
DigitCount(n) == IF n < 10 THEN 1 ELSE IF n < 100 THEN 2 ELSE IF n < 1000 THEN 3 ELSE 4

\* The decimal number read from index j of v on, and the index after it.
RECURSIVE ReadNumber(_, _, _)
ReadNumber(v, j, acc) ==
    IF j <= Len(v) /\ IsDigit(v[j])
    THEN ReadNumber(v, j + 1, acc * 10 + (v[j] - 48))
    ELSE [value |-> acc, next |-> j]

\* The offsets of vec where a tag starts: 0, and the offset after each comma.
TagStarts == {o \in 0..(Len(vec) - 1) : o = 0 \/ vec[o] = COMMA}

(* C16: padding(length) ends for every length and returns exactly length
   bytes; every decimal number in the result is followed by a comma and
   equals the offset of its first digit; where the next tag does not fit
   in the bytes that remain, and only there, those bytes are all 'x'. *)
C16_PaddingOffsets ==
    /\ Len(vec) = position
    /\ position <= padLength
    /\ padPc = "done" => Len(vec) = padLength
    /\ (padPc = "loop" /\ position < padLength) =>
         /\ ENABLED PaddingStep
         /\ Len(PaddingTag(position, padLength)) > 0
    /\ \A j \in 1..Len(vec) : IsDigit(vec[j]) \/ vec[j] \in {COMMA, LETTER_X}
    /\ \A o \in TagStarts :
         IF DigitCount(o) + 1 <= padLength - o
         THEN LET n == ReadNumber(vec, o + 1, 0)
              IN  /\ n.next = o + 1 + DigitCount(o)
                  /\ n.next <= Len(vec)
                  /\ vec[n.next] = COMMA
                  /\ n.value = o
         ELSE /\ Len(vec) = padLength
              /\ \A j \in (o + 1)..Len(vec) : vec[j] = LETTER_X

C16_Witness ==
    /\ padPc = "done"
    /\ padLength > 100
    /\ Len(vec) = padLength
    /\ vec[Len(vec)] = LETTER_X
    /\ vec[Len(vec) - 1] = LETTER_X
    /\ \E o \in TagStarts : o >= 100 /\ ReadNumber(vec, o + 1, 0).value = o

----------------------------------------------------------------------------
(* C4: a TLV whose length field is 0..3 is rejected by parse_tlv, whatever
   the buffer, and the dispatch function is not called for it. *)
C4_ShortLengthRejected ==
    LengthBelowHeader => Rejected /\ calls = <<>>

C4_Witness ==
    /\ LengthBelowHeader
    /\ DeclaredLength = 3
    /\ Len(prev) > 4
    /\ Rejected
    /\ calls = <<>>

(* C5: a TLV whose declared value is longer than the bytes left after the
   header is rejected and never dispatched; and the dispatch function is
   reached only with a value that lies whole inside the buffer. *)
C5_OverrunRejected ==
    /\ LengthOverruns => Rejected /\ calls = <<>>
    /\ calls # <<>> =>
         /\ HasHeader
         /\ DeclaredLength >= 4
         /\ DeclaredValue <= BytesAfterHeader
         /\ calls[1].value = Bytes(prev, 5, DeclaredLength)

C5_Witness ==
    /\ LengthOverruns
    /\ DeclaredValue = BytesAfterHeader + 1
    /\ Rejected
    /\ calls = <<>>

(* C6: an accepted TLV whose padding is not all in the buffer leaves an
   empty remaining input, so it is the last; every other accepted TLV
   leaves the input that starts right after the value rounded up to a
   multiple of 4 bytes. *)
C6_UnpaddedOnlyLast ==
    Accepted =>
        /\ input = result.rest
        /\ IF PaddingMissing
           THEN result.rest = <<>>
           ELSE result.rest = Bytes(prev, 4 + RoundUp4(DeclaredValue) + 1, Len(prev))

C6_Witness ==
    /\ Accepted
    /\ DeclaredValue % 4 = 1
    /\ Len(prev) = 4 + DeclaredValue + 1
    /\ PaddingMissing
    /\ result.rest = <<>>

(* C7: parse_tlv returns Ok only when the dispatch function returned Ok and
   consumed the whole value; a dispatch that leaves bytes, or answers
   Incomplete, makes parse_tlv fail; parse_tlv never returns Incomplete. *)
C7_NoPartialDecode ==
    /\ Accepted =>
         /\ Len(calls) = 1
         /\ calls[1].ret.ok
         /\ calls[1].ret.rest = <<>>
         /\ result.value = calls[1].ret.value
    /\ (calls # <<>> /\ calls[1].ret.ok /\ calls[1].ret.rest # <<>>) => Rejected
    /\ (calls # <<>> /\ calls[1].ret.variant = "Incomplete") => Rejected
    /\ result.variant # "Incomplete"

C7_Witness ==
    /\ calls # <<>>
    /\ calls[1].ret.ok
    /\ Len(calls[1].ret.rest) = 1
    /\ Len(calls[1].value) > 1
    /\ Rejected

(* C8: an input of fewer than 4 bytes fails with the error kind used for an
   invalid length field and for an overrunning length (ErrorKind::Count);
   every failure parse_tlv raises itself has that kind, none is Incomplete
   and none is an SctpError such as ReadUnderrun. *)
C8_UniformShortBuffer ==
    /\ (Called /\ ~HasHeader) => RejectedCount
    /\ LengthBelowHeader => RejectedCount
    /\ LengthOverruns => RejectedCount
    /\ (Called /\ calls = <<>>) => RejectedCount
    /\ (calls # <<>> /\ calls[1].ret.variant = "Incomplete") => RejectedCount
    /\ result.variant # "Incomplete"
    /\ result.kind \notin SctpError

C8_Witness ==
    /\ Called
    /\ Len(prev) = 3
    /\ RejectedCount
    /\ result.rest = prev

(* C9: for an accepted TLV the dispatch function is called once, with the
   big-endian tag of bytes 0..1 and the (declared length - 4) bytes after
   the header; the 0..3 padding bytes are not in the value, are skipped
   before the remaining input, and their contents do not change the
   result. *)
PadBytes == {0, 255}

\* s with the padding of its first TLV overwritten by the byte b
WithPadding(s, b) ==
    [j \in 1..Len(s) |->
        IF j > 4 + DeclaredValue /\ j <= 4 + RoundUp4(DeclaredValue) THEN b ELSE s[j]]

C9_DispatchOnceValueOnly ==
    Accepted =>
        /\ Len(calls) = 1
        /\ calls[1].tag = DeclaredTag
        /\ calls[1].value = Bytes(prev, 5, DeclaredLength)
        /\ result.value = <<DeclaredTag, Bytes(prev, 5, DeclaredLength)>>
        /\ LET pad     == (4 - (DeclaredValue % 4)) % 4
               present == IF BytesAfterHeader - DeclaredValue < pad
                          THEN BytesAfterHeader - DeclaredValue ELSE pad
           IN  /\ pad \in 0..3
               /\ RoundUp4(DeclaredValue) = DeclaredValue + pad
               /\ result.rest = Bytes(prev, 4 + DeclaredValue + present + 1, Len(prev))
        /\ \A b \in PadBytes : ParseTlv(WithPadding(prev, b), behaviour).res = result

C9_Witness ==
    /\ Accepted
    /\ DeclaredValue % 4 = 1
    /\ Len(calls) = 1
    /\ Len(calls[1].value) = DeclaredValue
    /\ Len(prev) > 4 + RoundUp4(DeclaredValue)
    /\ Len(result.rest) = Len(prev) - 4 - DeclaredValue - 3

(* C10: a successful parse_tlv returns a suffix of its input that is at
   least 4 bytes shorter, so parsing a buffer TLV by TLV takes at most
   len/4 successful steps before the input is empty or a call fails. *)
C10_Progress ==
    /\ Accepted =>
         /\ IsSuffix(result.rest, prev)
         /\ Len(result.rest) + 4 <= Len(prev)
         /\ input = result.rest
    /\ IsSuffix(input, buffer)
    /\ steps * 4 <= Len(buffer) - Len(input)
    /\ steps <= Len(buffer) \div 4
    /\ ~ENABLED ParseNext <=> \/ Called /\ ~Accepted
                              \/ Accepted /\ input = <<>>

C10_Witness ==
    /\ steps = 3
    /\ Accepted
    /\ input = <<>>
    /\ Len(buffer) = 4 * steps

----------------------------------------------------------------------------
(* The echo server session read from the log of its calls *)

ControlMessages == {ABORT, SHUTDOWN}

\* The i-th call is a recv that returned Ok(Some(message)).
RecvSome(i) == log[i].op = "recv" /\ log[i].ret.is = "Some"

\* The i-th call is a recv that returned a message that is neither control message.
RecvData(i) == RecvSome(i) /\ log[i].ret.msg \notin ControlMessages

\* The bytes padding writes: decimal digits, commas and the letter x.
PaddingBytes == (48..57) \cup {COMMA, LETTER_X}

\* bytes is 1000 padding bytes, then "Echo: ", then msg.
IsEchoOf(bytes, msg) ==
    /\ Len(bytes) = ECHO_PADDING + Len(ECHO_PREFIX) + Len(msg)
    /\ \A k \in 1..ECHO_PADDING : bytes[k] \in PaddingBytes
    /\ SubSeq(bytes, 1, 2) = <<48, COMMA>>
    /\ SubSeq(bytes, ECHO_PADDING + 1, ECHO_PADDING + Len(ECHO_PREFIX)) = ECHO_PREFIX
    /\ SubSeq(bytes, ECHO_PADDING + Len(ECHO_PREFIX) + 1, Len(bytes)) = msg

\* The i-th call is the send before the loop: only listen and accept precede it.
FirstSend(i) ==
    /\ log[i].op = "send_bytes"
    /\ \A j \in 1..(i - 1) : log[j].op \in {"listen", "accept"}

(* C11: the greeting "Hello, SCTP!\n" is sent before the first recv; every
   received message other than "abort\n" and "shutdown\n" is followed by
   exactly one send_bytes, of 1000 padding bytes, "Echo: " and the received
   bytes, and the next recv comes only after that send; every send after the
   greeting is the echo of the message received just before it, so echoes
   follow the order of the messages with none skipped and none doubled. *)
C11_EchoPerMessage ==
    /\ \A i \in 1..Len(log) :
         /\ FirstSend(i) => log[i].arg = HELLO
         /\ log[i].op = "recv" =>
              \E j \in 1..(i - 1) : FirstSend(j) /\ log[j].ret.is = "Ok"
         /\ RecvData(i) =>
              /\ i = Len(log) => mainPc \in {"padding", "echo"}
              /\ i < Len(log) =>
                   /\ log[i + 1].op = "send_bytes"
                   /\ IsEchoOf(log[i + 1].arg, log[i].ret.msg)
              /\ i + 2 <= Len(log) =>
                   /\ log[i + 1].ret.is = "Ok"
                   /\ log[i + 2].op = "recv"
         /\ log[i].op = "send_bytes" /\ ~FirstSend(i) =>
              /\ RecvData(i - 1)
              /\ IsEchoOf(log[i].arg, log[i - 1].ret.msg)

C11_Witness ==
    /\ Len(log) = 7
    /\ FirstSend(3) /\ log[3].arg = HELLO
    /\ RecvData(4)
    /\ log[5].op = "send_bytes" /\ log[5].ret.is = "Ok"
    /\ IsEchoOf(log[5].arg, log[4].ret.msg)
    /\ RecvData(6)
    /\ log[6].ret.msg # log[4].ret.msg
    /\ log[7].op = "send_bytes" /\ log[7].ret.is = "Ok"
    /\ IsEchoOf(log[7].arg, log[6].ret.msg)
    /\ log[7].arg # log[5].arg

(* C12: once abort() or shutdown() has been called, send_bytes is never
   called again.  The message "abort\n" is followed by abort() and, when it
   succeeds, by the end of the session; the message "shutdown\n" is followed
   by shutdown(), then recv_wait(), then the end of the session; neither
   message is echoed, and abort() and shutdown() are called for no other
   message. *)
C12_NoSendAfterAbortOrShutdown ==
    /\ \A i \in 1..Len(log) : \A j \in (i + 1)..Len(log) :
         log[i].op \in {"abort", "shutdown"} => log[j].op # "send_bytes"
    /\ \A i \in 1..Len(log) :
         /\ RecvSome(i) /\ log[i].ret.msg = ABORT =>
              /\ i = Len(log) => mainPc = "abort"
              /\ i < Len(log) => log[i + 1].op = "abort" /\ i + 1 = Len(log)
         /\ log[i].op = "abort" =>
              /\ RecvSome(i - 1) /\ log[i - 1].ret.msg = ABORT
              /\ log[i].ret.is = "Ok" => mainPc = "return Ok"
         /\ RecvSome(i) /\ log[i].ret.msg = SHUTDOWN =>
              /\ i = Len(log) => mainPc = "shutdown"
              /\ i < Len(log) => log[i + 1].op = "shutdown"
              /\ i + 2 <= Len(log) =>
                   log[i + 2].op = "recv_wait" /\ i + 2 = Len(log)
         /\ log[i].op = "shutdown" =>
              /\ RecvSome(i - 1) /\ log[i - 1].ret.msg = SHUTDOWN
              /\ log[i].ret.is = "Ok" =>
                   \/ i = Len(log) /\ mainPc = "recv_wait"
                   \/ i + 1 = Len(log) /\ log[i + 1].op = "recv_wait"
         /\ log[i].op = "recv_wait" =>
              /\ log[i - 1].op = "shutdown" /\ log[i - 1].ret.is = "Ok"
              /\ log[i].ret.is = "Ok" => mainPc = "return Ok"
    /\ mainPc \in {"padding", "echo"} =>
         \A i \in 1..Len(log) : log[i].op \notin {"abort", "shutdown", "recv_wait"}

C12_Witness ==
    /\ Len(log) = 8
    /\ RecvData(4)
    /\ log[5].op = "send_bytes" /\ log[5].ret.is = "Ok"
    /\ RecvSome(6) /\ log[6].ret.msg = SHUTDOWN
    /\ log[7].op = "shutdown" /\ log[7].ret.is = "Ok"
    /\ log[8].op = "recv_wait" /\ log[8].ret.is = "Ok"
    /\ mainPc = "return Ok"

\* The i-th call returned Err(e).
Failed(i) == log[i].ret.is = "Err"

(* C13: the session stops at the first failure or close, and no call follows
   it.  An Err from send_bytes, abort, shutdown or recv_wait is the last call
   and echo_server returns Err; a recv that returns Ok(None) or Err is the
   last call and echo_server returns Ok(()); a recv other than the first is
   called only after a message that is neither control message was received
   and its echo was sent with Ok. *)
C13_StopsAtFirstFailure ==
    /\ \A i \in 1..Len(log) :
         /\ log[i].op \in {"send_bytes", "abort", "shutdown", "recv_wait"} /\ Failed(i) =>
              i = Len(log) /\ mainPc = "return Err"
         /\ log[i].op = "recv" /\ log[i].ret.is \in {"None", "Err"} =>
              i = Len(log) /\ mainPc = "return Ok"
         /\ log[i].op = "recv" =>
              \/ FirstSend(i - 1) /\ log[i - 1].ret.is = "Ok"
              \/ /\ log[i - 1].op = "send_bytes" /\ log[i - 1].ret.is = "Ok"
                 /\ RecvData(i - 2)
    /\ mainPc = "return Err" =>
         /\ log # <<>>
         /\ Failed(Len(log))
         /\ log[Len(log)].op \in {"send_bytes", "abort", "shutdown", "recv_wait"}
    /\ mainPc = "return Ok" =>
         /\ log # <<>>
         /\ \/ log[Len(log)].op = "recv" /\ log[Len(log)].ret.is \in {"None", "Err"}
            \/ log[Len(log)].op \in {"abort", "recv_wait"} /\ log[Len(log)].ret.is = "Ok"
    /\ mainPc \in {"return Ok", "return Err", "panicked"} =>
         /\ ~Waiting
         /\ ~ENABLED Call
         /\ ~ENABLED CallPadding

C13_Witness ==
    /\ Len(log) = 7
    /\ RecvData(4)
    /\ log[5].op = "send_bytes" /\ log[5].ret.is = "Ok"
    /\ RecvData(6)
    /\ log[7].op = "send_bytes" /\ Failed(7)
    /\ mainPc = "return Err"

\* The places of the spawned thread before tx.send has run.
BeforeSend == {"Runtime::new", "SctpStack::new", "handle", "tx.send", "panicked"}

\* The places of the main thread inside echo_server.
InEchoServer == CallSites \cup {"padding", "return Ok", "return Err"}

(* C15: the spawned thread makes the stack, takes its handle and sends it on
   the channel before it spawns and runs the stack future, and the main
   thread enters echo_server only with the handle it received: while the
   handle is unsent the main thread waits (or has panicked with the channel
   closed) and has called nothing; the stack is polled only after the handle
   was sent; every call is made with the handle.  Calls may be made before
   the stack is first polled. *)
C15_HandleBeforeCommands ==
    /\ stackPc \in BeforeSend =>
         /\ chan = <<>>
         /\ handle = "none"
         /\ mainPc \in {"rx.recv", "panicked"}
         /\ log = <<>>
         /\ ~polled
    /\ stackPc \in {"rt.spawn", "rt.run"} =>
         \/ chan = <<"handle">> /\ handle = "none" /\ mainPc = "rx.recv"
         \/ chan = <<>> /\ handle = "handle" /\ mainPc # "rx.recv"
    /\ polled => stackPc = "rt.run"
    /\ mainPc \in InEchoServer => handle = "handle"
    /\ mainPc = "rx.recv" => log = <<>> /\ handle = "none"
    /\ mainPc = "panicked" /\ handle = "none" => stackPc = "panicked" /\ log = <<>>
    /\ \A i \in 1..Len(log) : log[i].by = "handle"

C15_Witness ==
    /\ ~polled
    /\ stackPc = "rt.spawn"
    /\ Len(log) = 2
    /\ log[1].op = "listen" /\ log[1].by = "handle" /\ log[1].ret.is = "Ok"
    /\ log[2].op = "accept" /\ log[2].by = "handle"

====
